---- MODULE Spec2Model ----
(***************************************************************************)
(* Expense tracker (src/tracker/src/App.jsx): the ledger kept in           *)
(* localStorage, the month-rollover reminder and the WhatsApp summary      *)
(* dispatch.                                                               *)
(*                                                                         *)
(* Representation.  A JavaScript string is a sequence of one-character     *)
(* strings, so that trim, startsWith and the month-key formatting are      *)
(* computed character by character.  A JavaScript number is an integer     *)
(* count of hundredths (the amount field has step 0.01); NaN is a separate *)
(* value.  An instant is a tick of a sampled clock: every calendar month   *)
(* contributes the instants of Samples, given as UTC day and hour, and the *)
(* local clock is UTC shifted by tz hours.                                 *)
(*                                                                         *)
(* The variables alertShown, windowOpened and submitted hold what the most *)
(* recent handler showed, opened and was given; sentMonth, dismissed and   *)
(* firstUse are history variables.  Conversions that depend only on the    *)
(* instant, the time zone or the typed text are tabulated once.            *)
(***************************************************************************)
EXTENDS Integers, Sequences, FiniteSets

VARIABLES
    now,                  \* the clock: index of the current sampled instant
    tz,                   \* local time minus UTC, in hours (fixed by the environment)
    stored,               \* localStorage[STORAGE_KEY]
    marker,               \* localStorage[LAST_SENT_KEY]
    session,              \* "none" | "open" | "crashed" : the mounted App
    expenses,             \* useState: expenses
    selectedMonth,        \* useState: selectedMonth
    showMonthlyReminder,  \* useState: showMonthlyReminder
    alertShown,           \* the alert(), confirm() or console.error() of the most recent handler
    windowOpened,         \* the window.open() call of the most recent handler
    submitted,            \* the form content the most recent handler was submitted with
    sentMonth,            \* history: local month of the last dispatch whose composer opened
    dismissed,            \* history: a dismiss happened and no marker write since
    firstUse              \* history: local month number of the first session start,
                          \*   until a session has started in a later month

vars == <<now, tz, stored, marker, session, expenses,
          selectedMonth, showMonthlyReminder, alertShown, windowOpened,
          submitted, sentMonth, dismissed, firstUse>>

----------------------------------------------------------------------------
(* Bounds of the model *)

MaxTick == 2        \* the clock runs over ticks 0..MaxTick
MaxExpenses == 1    \* Spec: addExpense is not followed with this many entries in the ledger

----------------------------------------------------------------------------
(* Strings *)

Empty == <<>>

DigitChars == <<"0", "1", "2", "3", "4", "5", "6", "7", "8", "9">>

IsDigit(c) == \E i \in 1..10 : DigitChars[i] = c

DigitVal(c) == CHOOSE d \in 0..9 : DigitChars[d + 1] = c

\* String(n) for a non-negative integer n
RECURSIVE StringOf(_)
StringOf(n) ==
    IF n < 10 THEN <<DigitChars[n + 1]>>
    ELSE StringOf(n \div 10) \o <<DigitChars[(n % 10) + 1]>>

\* s.padStart(2, "0")
padStart2(s) == IF Len(s) < 2 THEN <<"0">> \o s ELSE s

\* s.startsWith(p)
startsWith(s, p) == Len(p) <= Len(s) /\ SubSeq(s, 1, Len(p)) = p

RECURSIVE trimStart(_)
trimStart(s) == IF s # Empty /\ Head(s) = " " THEN trimStart(Tail(s)) ELSE s

RECURSIVE trimEnd(_)
trimEnd(s) ==
    IF s # Empty /\ s[Len(s)] = " " THEN trimEnd(SubSeq(s, 1, Len(s) - 1)) ELSE s

\* s.trim()
trim(s) == trimEnd(trimStart(s))

\* a string is truthy iff it is not empty
Truthy(s) == s # Empty

----------------------------------------------------------------------------
(* Numbers: Number(string) on decimal literals with at most two fraction    *)
(* digits, in hundredths.                                                   *)

NaN == [nan |-> TRUE, v |-> 0]
Num(n) == [nan |-> FALSE, v |-> n]

AllDigits(s) == \A i \in 1..Len(s) : IsDigit(s[i])

RECURSIVE DigitsVal(_)
DigitsVal(s) ==
    IF s = Empty THEN 0
    ELSE DigitsVal(SubSeq(s, 1, Len(s) - 1)) * 10 + DigitVal(s[Len(s)])

DotAt(s) == IF \E i \in 1..Len(s) : s[i] = "."
            THEN CHOOSE i \in 1..Len(s) : s[i] = "." /\ \A j \in 1..(i - 1) : s[j] # "."
            ELSE 0

\* the value of an unsigned decimal literal, or NaN
Unsigned(s) ==
    LET d == DotAt(s)
        ip == IF d = 0 THEN s ELSE SubSeq(s, 1, d - 1)
        fp == IF d = 0 THEN Empty ELSE SubSeq(s, d + 1, Len(s))
    IN  IF /\ AllDigits(ip) /\ AllDigits(fp)
           /\ Len(ip) + Len(fp) > 0
           /\ Len(fp) <= 2
        THEN Num(DigitsVal(ip) * 100
                 + (IF Len(fp) = 1 THEN DigitsVal(fp) * 10 ELSE DigitsVal(fp)))
        ELSE NaN

\* Number(s): white space is trimmed, the empty string is 0, a sign is allowed
Number(s) ==
    LET t == trim(s)
    IN  IF t = Empty THEN Num(0)
        ELSE IF Head(t) = "-"
             THEN LET u == Unsigned(Tail(t))
                  IN  IF u.nan THEN NaN ELSE Num(0 - u.v)
        ELSE IF Head(t) = "+" THEN Unsigned(Tail(t))
        ELSE Unsigned(t)

\* !n for a number: NaN and 0 are falsy
Falsy(n) == n.nan \/ n.v = 0

----------------------------------------------------------------------------
(* Dates *)

\* the sampled instants of a month, in UTC: its first hour-and-a-bit and its
\* last hour ("last" is the month's last day)
Samples == << [day |-> "first", hour |-> 1], [day |-> "last", hour |-> 23] >>

\* month number (12 * year + month - 1) of tick 0: November 2025
EpochMonth == 12 * 2025 + 10

TimeZones == {0, 2}

Ticks == 0..MaxTick

DaysIn(mn) ==
    LET m == (mn % 12) + 1
        y == mn \div 12
    IN  IF m \in {4, 6, 9, 11} THEN 30
        ELSE IF m = 2 THEN (IF y % 4 = 0 /\ (y % 100 # 0 \/ y % 400 = 0) THEN 29 ELSE 28)
        ELSE 31

\* the UTC fields of the instant of tick t
UTCFields(t) ==
    LET mn == EpochMonth + (t \div Len(Samples))
        s == Samples[(t % Len(Samples)) + 1]
    IN  [mn |-> mn, day |-> IF s.day = "first" THEN 1 ELSE DaysIn(mn), hour |-> s.hour]

\* the local fields of the same instant: UTC shifted by off hours (|off| < 24)
LocalFields(t, off) ==
    LET u == UTCFields(t)
        h == u.hour + off
    IN  IF h < 0 THEN
            IF u.day = 1
            THEN [mn |-> u.mn - 1, day |-> DaysIn(u.mn - 1), hour |-> h + 24]
            ELSE [mn |-> u.mn, day |-> u.day - 1, hour |-> h + 24]
        ELSE IF h >= 24 THEN
            IF u.day = DaysIn(u.mn)
            THEN [mn |-> u.mn + 1, day |-> 1, hour |-> h - 24]
            ELSE [mn |-> u.mn, day |-> u.day + 1, hour |-> h - 24]
        ELSE [mn |-> u.mn, day |-> u.day, hour |-> h]

\* `${y}-${m}` of a month number
KeyOf(mn) == StringOf(mn \div 12) \o <<"-">> \o padStart2(StringOf((mn % 12) + 1))

\* monthKeyFromDate(d) for the Date of tick t in time zone off:
\* getFullYear() and getMonth() are local fields
LocalKey(t, off) == KeyOf(LocalFields(t, off).mn)

\* new Date().toISOString() at tick t: UTC fields, "YYYY-MM-DDTHH:mm:ss.sssZ"
ISOText(t) ==
    LET u == UTCFields(t)
    IN  KeyOf(u.mn) \o <<"-">> \o padStart2(StringOf(u.day)) \o <<"T">>
        \o padStart2(StringOf(u.hour))
        \o <<":", "0", "0", ":", "0", "0", ".", "0", "0", "0", "Z">>

\* the two conversions, tabulated over the instants of the model
LocalKeys == [off \in TimeZones |-> [t \in Ticks |-> LocalKey(t, off)]]
ISOTexts == [t \in Ticks |-> ISOText(t)]

monthKeyFromDate(t, off) == LocalKeys[off][t]
toISOString(t) == ISOTexts[t]

----------------------------------------------------------------------------
(* localStorage and JSON *)

\* localStorage.getItem of a key that was never set
NoItem == [some |-> FALSE, val |-> Empty]
Item(s) == [some |-> TRUE, val |-> s]

\* What STORAGE_KEY may hold: nothing, text that JSON.parse rejects, or the JSON
\* text of a value.  A value is an array of expenses (array = TRUE) or something
\* else, such as an object (array = FALSE).
NoPayload == [kind |-> "absent", array |-> FALSE, items |-> <<>>]
Garbage == [kind |-> "garbage", array |-> FALSE, items |-> <<>>]
ArrayValue(items) == [array |-> TRUE, items |-> items]
ObjectValue == [array |-> FALSE, items |-> <<>>]

\* The entries of the model hold strings and finite numbers only (the amount
\* field is an <input type="number">, whose value is a finite decimal or
\* empty), and JSON.parse gives those back as JSON.stringify took them.
JSONstringify(v) == [kind |-> "json", array |-> v.array, items |-> v.items]
JSONparse(raw) == [array |-> raw.array, items |-> raw.items]

\* loadExpenses(): [] when nothing is stored or the text does not parse,
\* otherwise whatever the text parses to
loadExpenses(raw) ==
    IF raw.kind = "absent" THEN ArrayValue(<<>>)
    ELSE IF raw.kind = "garbage" THEN ArrayValue(<<>>)
    ELSE JSONparse(raw)

\* variant: an empty array is written whatever the ledger holds
saveExpensesEmpty(list) == JSONstringify(ArrayValue(<<>>))

\* saveExpenses(expenses): the new content of STORAGE_KEY
saveExpenses(list) == JSONstringify(ArrayValue(list))

\* variant: the persist effect does not run after the first render
storedUntouched(raw, list) == raw

\* STORAGE_KEY after the first render, when it held raw and list was loaded:
\* the persist effect runs once on mount
storedAfterMount(raw, list) == saveExpenses(list)

\* the first render calls expenses.filter: a TypeError unless expenses is an array
RenderThrows(loaded) == ~loaded.array

----------------------------------------------------------------------------
(* Aggregation *)

\* expensesForMonth: expenses.filter((x) => x.dateISO.startsWith(monthKey))
expensesForMonth(list, monthKey) ==
    SelectSeq(list, LAMBDA x : startsWith(x.dateISO, monthKey))

RECURSIVE SumAmounts(_)
SumAmounts(list) ==
    IF list = <<>> THEN 0 ELSE SumAmounts(SubSeq(list, 1, Len(list) - 1)) + list[Len(list)].amount

\* totalForMonth: arr.reduce((s, it) => s + Number(it.amount || 0), 0)
totalForMonth(list, monthKey) == SumAmounts(expensesForMonth(list, monthKey))

----------------------------------------------------------------------------
(* The summary text *)

\* m.split("-")
RECURSIVE split(_)
split(s) ==
    IF \E i \in 1..Len(s) : s[i] = "-"
    THEN LET i == CHOOSE k \in 1..Len(s) : s[k] = "-" /\ \A j \in 1..(k - 1) : s[j] # "-"
         IN  <<SubSeq(s, 1, i - 1)>> \o split(SubSeq(s, i + 1, Len(s)))
    ELSE <<s>>

\* `${x}` of an element the destructuring did not find
Undefined == <<"u", "n", "d", "e", "f", "i", "n", "e", "d">>

\* const [yr, mon] = m.split("-"); `${mon}/${yr}`
humanMonth(m) ==
    LET parts == split(m)
        yr == parts[1]
        mon == IF Len(parts) >= 2 THEN parts[2] ELSE Undefined
    IN  mon \o <<"/">> \o yr

\* en-US grouping of the digits of an integer: a comma before every group of
\* three digits counted from the right
RECURSIVE Grouped(_)
Grouped(d) ==
    IF Len(d) <= 3 THEN d
    ELSE Grouped(SubSeq(d, 1, Len(d) - 3)) \o <<",">> \o SubSeq(d, Len(d) - 2, Len(d))

Abs(v) == IF v < 0 THEN 0 - v ELSE v

\* variant: String(n), which drops the fraction's trailing zeros and the point
\* of a whole number
formatPlain(v) ==
    (IF v < 0 THEN <<"-">> ELSE Empty)
      \o StringOf(Abs(v) \div 100)
      \o (IF Abs(v) % 100 = 0 THEN Empty
          ELSE IF Abs(v) % 10 = 0 THEN <<".">> \o StringOf((Abs(v) % 100) \div 10)
          ELSE <<".">> \o padStart2(StringOf(Abs(v) % 100)))

\* formatCurrency(n) of an amount of v hundredths:
\* Number(n).toLocaleString("en-US", {minimumFractionDigits: 2, maximumFractionDigits: 2})
formatCurrency(v) ==
    (IF v < 0 THEN <<"-">> ELSE Empty)
      \o Grouped(StringOf(Abs(v) \div 100))
      \o <<".">> \o padStart2(StringOf(Abs(v) % 100))

\* the fixed parts of the message, each kept as one element of the text
FIXED_WHATSAPP_MESSAGE_PREFIX == <<"[summary of expenses for month]">>
TotalLabel == <<"[total expenses]: ">>
SentFromSite == <<"([sent from the site])">>
NewLine == <<"\n">>

----------------------------------------------------------------------------
(* Rollover *)

\* variants of the check: without the presence test, and without the comparison
rolloverPendingNoPresence(lastSent, nowMonth) == lastSent.val # nowMonth
rolloverPendingNoCompare(lastSent, nowMonth) == lastSent.some /\ Truthy(lastSent.val)

\* lastSent && lastSent !== nowMonth
rolloverPending(lastSent, nowMonth) ==
    lastSent.some /\ Truthy(lastSent.val) /\ lastSent.val # nowMonth

----------------------------------------------------------------------------
(* Inputs *)

\* what the user may have typed into the amount, reason and notes fields
Draft(a, r, n) == [amount |-> a, reason |-> r, notes |-> n]
Food == <<" ", "f", "o", "o", "d", " ">>
Drafts == { Draft(<<"1", "2", ".", "5", "0">>, Food, <<" ", "n">>),
            Draft(<<"-", "7">>, Food, Empty),
            Draft(<<"0">>, Food, Empty),
            Draft(<<"a", "b", "c">>, Food, Empty),
            Draft(<<"5">>, <<" ">>, Empty),
            Draft(<<"5">>, Empty, Empty) }

\* Math.random().toString(36).slice(2, 8): two of its values
RandomSuffixes == { "k3x9qa", "z0m4tb" }

\* the months in which the model has instants, in time zone off
Horizon(off) == { LocalFields(t, off).mn : t \in Ticks } \cup { UTCFields(t).mn : t \in Ticks }

\* their keys, tabulated
HorizonKeysOf == [off \in TimeZones |-> { KeyOf(mn) : mn \in Horizon(off) }]

\* answers to prompt() in month mn: cancelled or left blank (both falsy), the
\* key of the month before, or a year alone
PromptAnswers(mn) == { Empty, KeyOf(mn - 1), <<"2", "0", "2", "5">> }

\* the answers and the months -6..2 around the current one, tabulated over the
\* instants of the model
PromptInputs == [off \in TimeZones |-> [t \in Ticks |-> PromptAnswers(LocalFields(t, off).mn)]]
OptionWindow ==
    [off \in TimeZones |->
       [t \in Ticks |-> { KeyOf(LocalFields(t, off).mn + i) : i \in (0 - 6)..2 }]]
LocalMonths == [off \in TimeZones |-> [t \in Ticks |-> LocalFields(t, off).mn]]

\* window.open(url, "_blank"): a window, null (pop-up blocked), or an exception
OpenOutcomes == { "opened", "blocked", "threw" }

NoAlert == "none"
ValidationAlert == "validation"
WhatsAppAlert == "whatsapp"

\* confirm() of removeExpense, with its answer
ConfirmAccepted == "confirm-ok"
ConfirmDeclined == "confirm-cancel"

\* console.error of loadExpenses: the stored text did not parse
ParseErrorLogged == "console-error"

NoOpen == [outcome |-> "none", month |-> Empty, total |-> 0, body |-> Empty]

NoSubmit == [typed |-> FALSE, amount |-> Empty, reason |-> Empty, notes |-> Empty]
Submit(d) == [typed |-> TRUE, amount |-> d.amount, reason |-> d.reason, notes |-> d.notes]

----------------------------------------------------------------------------
(* The session *)

LocalMonth == LocalMonths[tz][now]

\* values of firstUse that are no month number
NeverUsed == 0 - 1
Settled == 0 - 2

\* state outside React state: nothing of a handler is on screen
Quiet == alertShown' = NoAlert /\ windowOpened' = NoOpen /\ submitted' = NoSubmit

Init ==
    /\ now = 0
    /\ tz \in TimeZones
    /\ stored \in {NoPayload, Garbage, JSONstringify(ObjectValue)}
    /\ marker = NoItem
    /\ session = "none"
    /\ expenses = <<>>
    /\ selectedMonth = Empty
    /\ showMonthlyReminder = FALSE
    /\ alertShown = NoAlert
    /\ windowOpened = NoOpen
    /\ submitted = NoSubmit
    /\ sentMonth = NoItem
    /\ dismissed = FALSE
    /\ firstUse = NeverUsed

\* variant in which an open page runs the rollover check again as time passes
TickRechecks ==
    /\ now < MaxTick
    /\ now' = now + 1
    /\ showMonthlyReminder' = IF session = "open"
                              THEN rolloverPending(marker, monthKeyFromDate(now + 1, tz))
                              ELSE showMonthlyReminder
    /\ UNCHANGED <<tz, stored, marker, session, expenses,
                   selectedMonth, alertShown, windowOpened,
                   submitted, sentMonth, dismissed, firstUse>>

\* time passes, with the page open or closed
Tick ==
    /\ now < MaxTick
    /\ now' = now + 1
    /\ UNCHANGED <<tz, stored, marker, session, expenses,
                   selectedMonth, showMonthlyReminder, alertShown, windowOpened,
                   submitted, sentMonth, dismissed, firstUse>>

\* The page is loaded: useState initialisers, the first render, then the two
\* effects in order (persist, rollover check).  A render that throws unmounts the
\* tree before any effect runs.
StartSession ==
    /\ session = "none"
    /\ LET loaded == loadExpenses(stored)
           nowMonth == monthKeyFromDate(now, tz)
       IN  IF RenderThrows(loaded)
           THEN /\ session' = "crashed"
                /\ UNCHANGED <<stored, expenses, selectedMonth, showMonthlyReminder,
                               firstUse>>
           ELSE /\ session' = "open"
                /\ expenses' = loaded.items
                /\ stored' = storedAfterMount(stored, loaded.items)
                /\ showMonthlyReminder' = rolloverPending(marker, nowMonth)
                /\ selectedMonth' = nowMonth
                /\ firstUse' = IF firstUse = NeverUsed THEN LocalMonth
                               ELSE IF firstUse # Settled /\ LocalMonth > firstUse
                                    THEN Settled
                                    ELSE firstUse
    /\ alertShown' = IF stored.kind = "garbage" THEN ParseErrorLogged ELSE NoAlert
    /\ windowOpened' = NoOpen
    /\ submitted' = NoSubmit
    /\ UNCHANGED <<now, tz, marker, sentMonth, dismissed>>

\* the page is closed or reloaded: React state is discarded
CloseSession ==
    /\ session # "none"
    /\ session' = "none"
    /\ expenses' = <<>>
    /\ selectedMonth' = Empty
    /\ showMonthlyReminder' = FALSE
    /\ Quiet
    /\ UNCHANGED <<now, tz, stored, marker, sentMonth, dismissed, firstUse>>

\* variant of the validation: amt === 0 in place of !amt
addRejectsZeroOnly(amountText, reasonText) ==
    Number(amountText) = Num(0) \/ ~Truthy(trim(reasonText))

\* the validation of addExpense: !amt || !reason.trim()
addRejects(amountText, reasonText) ==
    Falsy(Number(amountText)) \/ ~Truthy(trim(reasonText))

\* the fields addExpense takes from the form: amt, reason.trim(), notes.trim()
itemFields(amountText, reasonText, notesText) ==
    [ amount |-> Number(amountText).v,
      reason |-> trim(reasonText),
      notes |-> trim(notesText) ]

\* the validation and the fields, tabulated over the drafts
Rejected == [d \in Drafts |-> addRejects(d.amount, d.reason)]
Fields == [d \in Drafts |-> itemFields(d.amount, d.reason, d.notes)]

\* the item addExpense builds from draft d; the id Date.now() + "-" + suffix is
\* kept as the pair of its parts (ids are only compared for equality)
newItem(t, suffix, d) ==
    [ id |-> <<t, suffix>>,
      amount |-> Fields[d].amount,
      reason |-> Fields[d].reason,
      notes |-> Fields[d].notes,
      dateISO |-> toISOString(t) ]

\* The form is submitted: addExpense(e), the re-render and the persist effect.
\* The draft fields amount, reason and notes are written by the inputs'
\* onChange and read by addExpense alone, so their content at submit time is
\* the input d of the action.  cap bounds the ledger the model follows.
AddExpense(cap) ==
    /\ session = "open"
    /\ \E d \in Drafts :
         /\ submitted' = Submit(d)
         /\ alertShown' = IF Rejected[d] THEN ValidationAlert ELSE NoAlert
         /\ windowOpened' = NoOpen
         /\ IF Rejected[d]
            THEN UNCHANGED <<stored, expenses, selectedMonth>>
            ELSE /\ Len(expenses) < cap
                 /\ \E suffix \in RandomSuffixes :
                      expenses' = <<newItem(now, suffix, d)>>
                                    \o expenses
                 /\ stored' = saveExpenses(expenses')
                 /\ selectedMonth' = monthKeyFromDate(now, tz)
    /\ UNCHANGED <<now, tz, marker, session, showMonthlyReminder, sentMonth,
                   dismissed, firstUse>>

\* expenses.filter((x) => x.id !== id)
withoutId(list, id) == SelectSeq(list, LAMBDA x : x.id # id)

\* variant of removeExpense that does not look at the answer of confirm()
RemoveExpenseUnconfirmed ==
    /\ session = "open"
    /\ \E i \in 1..Len(expensesForMonth(expenses, selectedMonth)), ok \in BOOLEAN :
         LET id == expensesForMonth(expenses, selectedMonth)[i].id
         IN  /\ alertShown' = IF ok THEN ConfirmAccepted ELSE ConfirmDeclined
             /\ expenses' = withoutId(expenses, id)
             /\ stored' = saveExpenses(expenses')
    /\ windowOpened' = NoOpen
    /\ submitted' = NoSubmit
    /\ UNCHANGED <<now, tz, marker, session, selectedMonth,
                   showMonthlyReminder, sentMonth, dismissed, firstUse>>

\* removeExpense(id) from the delete button of an entry listed for the selected
\* month; confirm() answers ok or cancel
RemoveExpense ==
    /\ session = "open"
    /\ \E i \in 1..Len(expensesForMonth(expenses, selectedMonth)), ok \in BOOLEAN :
         LET id == expensesForMonth(expenses, selectedMonth)[i].id
         IN  /\ alertShown' = IF ok THEN ConfirmAccepted ELSE ConfirmDeclined
             /\ IF ok
                THEN /\ expenses' = withoutId(expenses, id)
                     /\ stored' = saveExpenses(expenses')
                ELSE UNCHANGED <<expenses, stored>>
    /\ windowOpened' = NoOpen
    /\ submitted' = NoSubmit
    /\ UNCHANGED <<now, tz, marker, session, selectedMonth,
                   showMonthlyReminder, sentMonth, dismissed, firstUse>>

\* buildMonthOptions(): the months -6..2 around the current one, and the
\* selected month
buildMonthOptions == OptionWindow[tz][now] \cup { selectedMonth }

\* onChange of the month selector; the model follows the choices inside Horizon
SelectMonth ==
    /\ session = "open"
    /\ \E k \in buildMonthOptions \cap HorizonKeysOf[tz] :
         selectedMonth' = k
    /\ Quiet
    /\ UNCHANGED <<now, tz, stored, marker, session, expenses,
                   showMonthlyReminder, sentMonth, dismissed, firstUse>>

\* the months a dispatch may be asked for, and the totals the ledgers of the
\* model can have
DispatchMonths ==
    UNION { HorizonKeysOf[off] : off \in TimeZones }
      \cup UNION { PromptInputs[off][t] : off \in TimeZones, t \in Ticks }
LargestAmount == CHOOSE a \in { Abs(Fields[d].amount) : d \in Drafts } :
                   \A d \in Drafts : Abs(Fields[d].amount) <= a
Totals == (0 - (MaxExpenses + 1) * LargestAmount)..((MaxExpenses + 1) * LargestAmount)

\* the two renderings, tabulated
HumanMonths == [m \in DispatchMonths |-> humanMonth(m)]
Currency == [v \in Totals |-> formatCurrency(v)]

\* body of handleSendMonthly for month m and a total of v hundredths
summaryBody(m, v) ==
    FIXED_WHATSAPP_MESSAGE_PREFIX \o <<" ">> \o HumanMonths[m] \o NewLine
      \o TotalLabel \o Currency[v] \o NewLine
      \o SentFromSite

\* const m = monthToSend || selectedMonth
sendTarget(monthToSend, selected) ==
    IF Truthy(monthToSend) THEN monthToSend ELSE selected

\* variant: the month that was summarised is recorded
markerSummarised(m, nowMonth) == m

\* the value handleSendMonthly writes to LAST_SENT_KEY
markerAfterSend(m, nowMonth) == nowMonth

\* handleSendMonthly(monthToSend): window.open comes first; when it throws the
\* rest of the handler does not run
handleSendMonthly(monthToSend, outcome) ==
    LET m == sendTarget(monthToSend, selectedMonth)
        total == totalForMonth(expenses, m)
        nowMonth == monthKeyFromDate(now, tz)
    IN  /\ windowOpened' = [outcome |-> outcome, month |-> m, total |-> total,
                             body |-> summaryBody(m, total)]
        /\ IF outcome = "threw"
           THEN /\ UNCHANGED <<marker, showMonthlyReminder, dismissed>>
                /\ alertShown' = NoAlert
           ELSE /\ marker' = Item(markerAfterSend(m, nowMonth))
                /\ showMonthlyReminder' = FALSE
                /\ dismissed' = FALSE
                /\ alertShown' = WhatsAppAlert
        /\ sentMonth' = IF outcome = "opened" THEN Item(nowMonth) ELSE sentMonth
        /\ submitted' = NoSubmit
        /\ UNCHANGED <<now, tz, stored, session, expenses,
                       selectedMonth, firstUse>>

\* the reminder's send button: handleSendMonthly(prompt(...) || undefined)
SendFromReminder ==
    /\ session = "open"
    /\ showMonthlyReminder
    /\ \E answer \in PromptInputs[tz][now], outcome \in OpenOutcomes :
         handleSendMonthly(answer, outcome)

\* the report's send button: handleSendMonthly(selectedMonth)
SendSelected ==
    /\ session = "open"
    /\ \E outcome \in OpenOutcomes : handleSendMonthly(selectedMonth, outcome)

\* variant of the dismiss button that also records the month as sent
DismissMarksSent ==
    /\ session = "open"
    /\ showMonthlyReminder
    /\ showMonthlyReminder' = FALSE
    /\ dismissed' = TRUE
    /\ marker' = Item(monthKeyFromDate(now, tz))
    /\ Quiet
    /\ UNCHANGED <<now, tz, stored, session, expenses,
                   selectedMonth, sentMonth, firstUse>>

\* the reminder's dismiss button: setShowMonthlyReminder(false)
DismissReminder ==
    /\ session = "open"
    /\ showMonthlyReminder
    /\ showMonthlyReminder' = FALSE
    /\ dismissed' = TRUE
    /\ Quiet
    /\ UNCHANGED <<now, tz, stored, marker, session, expenses,
                   selectedMonth, sentMonth, firstUse>>

NextWith(cap) ==
    \/ Tick
    \/ StartSession
    \/ CloseSession
    \/ AddExpense(cap)
    \/ RemoveExpense
    \/ SelectMonth
    \/ SendFromReminder
    \/ SendSelected
    \/ DismissReminder

Next == NextWith(MaxExpenses)

Spec == Init /\ [][Next]_vars

\* the same program followed with one more entry in the ledger
NextLedger == NextWith(MaxExpenses + 1)

SpecLedger == Init /\ [][NextLedger]_vars

----------------------------------------------------------------------------
(* Properties *)

NowMonth == monthKeyFromDate(now, tz)

\* step predicates: a session starts; a handler of the open session runs
Starts == session = "none" /\ session' # "none"
Handles == session = "open" /\ session' = "open" /\ now' = now

\* new Date(iso): the instant an ISO timestamp denotes
DateParse(iso) == CHOOSE t \in Ticks : toISOString(t) = iso

\* the month key of an entry's timestamp, derived as the current month key is
MonthKeyOfEntry(e) == monthKeyFromDate(DateParse(e.dateISO), tz)

HorizonKeys == HorizonKeysOf[tz]

\* the data model's invariant on amounts
PositiveAmounts(list) == \A i \in 1..Len(list) : list[i].amount > 0

\* C1: at every session start the reminder is shown exactly when the persisted
\* marker is present and differs from the current month key; an absent marker
\* and a marker equal to the current month both give no reminder.
C1_RolloverAtStart ==
    [][ Starts =>
          showMonthlyReminder' = (marker.some /\ marker.val # NowMonth) ]_vars

C1_Witness ==
    /\ session = "open"
    /\ showMonthlyReminder
    /\ marker.some
    /\ marker.val # NowMonth
    /\ alertShown = NoAlert /\ windowOpened = NoOpen

\* C2: once a dispatch has opened the composer while the current month is M,
\* every session that starts while the current month is M shows no reminder,
\* whatever happened in between.
C2_SentMonthStaysQuiet ==
    [][ (Starts /\ sentMonth.some /\ sentMonth.val = NowMonth) =>
          ~showMonthlyReminder' ]_vars

C2_Witness ==
    /\ session = "open"
    /\ sentMonth.some
    /\ sentMonth.val = NowMonth
    /\ ~showMonthlyReminder
    /\ windowOpened = NoOpen
    /\ Len(expenses) > 0

\* C3: a dispatch whose delivery invocation fails (window.open returns null or
\* throws) leaves the marker and the reminder flag as they were.
C3_FailedDeliveryKeepsReminder ==
    [][ (Handles /\ windowOpened'.outcome \in {"blocked", "threw"}) =>
          (marker' = marker /\ showMonthlyReminder' = showMonthlyReminder) ]_vars

\* C4: a dismiss hides the reminder and leaves the marker unchanged, and every
\* session that starts after a dismiss, with no marker write since, shows the
\* reminder again.
C4_DismissIsPerSession ==
    [][ /\ (Handles /\ showMonthlyReminder /\ ~showMonthlyReminder'
              /\ windowOpened' = NoOpen) => (marker' = marker /\ dismissed')
        /\ (Starts /\ dismissed) => (showMonthlyReminder' /\ marker.val # NowMonth)
      ]_vars

C4_Witness ==
    /\ session = "open"
    /\ dismissed
    /\ showMonthlyReminder
    /\ marker.some

C6_FirstRolloverOffersSummary ==
    [][ (Starts /\ session' = "open"
           /\ firstUse \notin {NeverUsed, Settled}
           /\ LocalMonth > firstUse
           /\ ~marker.some) =>
          showMonthlyReminder' ]_vars

\* C7: for every ledger of positive amounts and every month key, totalForMonth
\* is the sum of the amounts of the entries whose timestamp lies in that month
\* of the local calendar (the calendar the current month key is taken from).
C7_TotalMatchesMonthOfTimestamp ==
    (session = "open" /\ PositiveAmounts(expenses)) =>
      \A k \in HorizonKeys :
        totalForMonth(expenses, k)
          = SumAmounts(SelectSeq(expenses, LAMBDA e : MonthKeyOfEntry(e) = k))

\* C8: an accepted add with amount A to the empty ledger makes the total of
\* the current month A, and a second accepted add with amount B in the same
\* current month makes it A + B.
C8_AddThenTotal ==
    [][ (Handles /\ Len(expenses') = Len(expenses) + 1 /\ PositiveAmounts(expenses')) =>
          /\ expenses = <<>> =>
               totalForMonth(expenses', NowMonth) = expenses'[1].amount
          /\ (Len(expenses) = 1 /\ MonthKeyOfEntry(expenses[1]) = NowMonth) =>
               totalForMonth(expenses', NowMonth)
                 = expenses[1].amount + expenses'[1].amount ]_vars

\* C9: removing the expense that was added last gives back the ledger as it
\* was before that add: every other entry stays, and the total of every month
\* is the one before the add.
C9_RemoveRestores ==
    [][ (Handles /\ Len(expenses) > 0 /\ Len(expenses') < Len(expenses)
           /\ PositiveAmounts(expenses)
           /\ \A i \in 1..Len(expenses') : expenses'[i].id # expenses[1].id) =>
          /\ expenses' = Tail(expenses)
          /\ \A k \in HorizonKeys :
               totalForMonth(expenses', k) = totalForMonth(Tail(expenses), k) ]_vars

\* C10: a submit whose amount is 0 or not a number, or whose reason is empty or
\* white space only, is rejected and changes neither the ledger in memory, the
\* persisted ledger, the marker, the reminder flag nor the selected month.
BlankText(r) == \A i \in 1..Len(r) : r[i] = " "

C10_RejectedAddChangesNothing ==
    [][ (Handles /\ submitted'.typed
           /\ (\/ Number(submitted'.amount) = Num(0)
               \/ Number(submitted'.amount).nan
               \/ BlankText(submitted'.reason))) =>
          /\ alertShown' = ValidationAlert
          /\ UNCHANGED <<expenses, stored, marker, showMonthlyReminder,
                         selectedMonth>> ]_vars

C10_Witness ==
    /\ session = "open"
    /\ alertShown = ValidationAlert
    /\ Number(submitted.amount).nan
    /\ marker.some
    /\ showMonthlyReminder
    /\ Len(expenses) > 0

\* C11: every expense in the ledger of an open session has an amount above 0
\* and a non-empty reason (a submit whose amount is not a positive number never
\* enters the ledger).
C11_LedgerEntriesValid ==
    session = "open" =>
      \A i \in 1..Len(expenses) :
        expenses[i].amount > 0 /\ expenses[i].reason # Empty

\* a payload that is not the serialisation of a ledger: text that does not
\* parse, or the JSON text of something that is no array
Malformed(raw) == raw.kind = "garbage" \/ (raw.kind = "json" /\ ~raw.array)

\* C12: a session that starts on a malformed payload (unparseable, or parsing
\* to something that is no sequence of expenses) gets the empty ledger from
\* loadExpenses and opens, with the empty ledger in memory.
C12_MalformedPayloadLoadsEmpty ==
    [][ (Starts /\ Malformed(stored)) =>
          /\ loadExpenses(stored) = ArrayValue(<<>>)
          /\ session' = "open"
          /\ expenses' = <<>> ]_vars

\* the month before the current one: the most recently completed month
PreviousMonth == KeyOf(LocalMonth - 1)

\* C13: when the reminder's send button is used and the prompt is left blank
\* (no month override), the summary is the one of the most recently completed
\* month, the month before the current one, with that month's total.
C13_ReminderDefaultsToPreviousMonth ==
    [][ (/\ session = "open"
         /\ showMonthlyReminder
         /\ \E outcome \in OpenOutcomes : handleSendMonthly(Empty, outcome)) =>
          /\ windowOpened'.month = PreviousMonth
          /\ windowOpened'.total = totalForMonth(expenses, PreviousMonth) ]_vars

\* C14: the marker changes only in a step of handleSendMonthly: a session
\* start, a session end, the passage of time, a submit (accepted or rejected),
\* a remove (confirmed or declined), a month selection and a dismiss all leave
\* it as it was.
C14_MarkerWrittenOnlyByDispatch ==
    [][ /\ marker' # marker => (Handles /\ windowOpened'.outcome # "none")
        /\ (Starts \/ submitted'.typed \/ Len(expenses') < Len(expenses)
              \/ selectedMonth' # selectedMonth
              \/ (Handles /\ showMonthlyReminder /\ ~showMonthlyReminder'
                    /\ windowOpened' = NoOpen)) => marker' = marker
      ]_vars

C14_Witness ==
    /\ session = "open"
    /\ marker.some
    /\ marker.val # NowMonth
    /\ submitted.typed
    /\ alertShown = NoAlert
    /\ Len(expenses) > 0

\* C15: after every handler of an open session, and after the session start
\* itself, the persisted ledger is the JSON text of the ledger in memory; and
\* the ledger a session starts with is the one that was persisted, so the one
\* the session before ended with.
C15_StoreMirrorsLedger ==
    [][ /\ session' = "open" =>
             (stored'.kind = "json" /\ stored'.array /\ stored'.items = expenses')
        /\ (Starts /\ session' = "open") => expenses' = stored.items ]_vars

\* an entry added at the first instant is in the ledger of a session that
\* started in a later month
C15_Witness ==
    /\ session = "open"
    /\ firstUse = Settled
    /\ Len(expenses) = 1
    /\ expenses[1].id[1] = 0
    /\ stored.items = expenses

\* a is b with some of its entries taken out: the entries of a are entries of
\* b, with the same fields and in the same order
RECURSIVE IsSubSeq(_, _)
IsSubSeq(a, b) ==
    IF a = <<>> THEN TRUE
    ELSE IF b = <<>> THEN FALSE
    ELSE IF Head(a) = Head(b) THEN IsSubSeq(Tail(a), Tail(b))
    ELSE IsSubSeq(a, Tail(b))

C17_IdsUnique ==
    session = "open" =>
      \A i, j \in 1..Len(expenses) :
        i # j => expenses[i].id # expenses[j].id

\* a month key "YYYY-MM"
IsMonthKey(m) ==
    /\ Len(m) = 7
    /\ m[5] = "-"
    /\ AllDigits(SubSeq(m, 1, 4))
    /\ AllDigits(SubSeq(m, 6, 7))
    /\ DigitsVal(SubSeq(m, 6, 7)) \in 1..12

Contains(text, part) ==
    \E i \in 1..(Len(text) - Len(part) + 1) : SubSeq(text, i, i + Len(part) - 1) = part

\* an amount of v hundredths written with its sign, its whole part, a point and
\* exactly two decimals
TwoDecimals(v) ==
    (IF v < 0 THEN <<"-">> ELSE Empty)
      \o StringOf(Abs(v) \div 100)
      \o <<".", DigitChars[((Abs(v) % 100) \div 10) + 1], DigitChars[(Abs(v) % 10) + 1]>>

WithoutCommas(s) == SelectSeq(s, LAMBDA c : c # ",")

NumberChar(c) == IsDigit(c) \/ c \in {",", ".", "-"}

\* the text holds a number, set apart from the text around it, that is the
\* amount of v hundredths with exactly two decimals (digit grouping aside)
ContainsAmount(text, v) ==
    \E i \in 1..Len(text) : \E j \in i..Len(text) :
      /\ i = 1 \/ ~NumberChar(text[i - 1])
      /\ j = Len(text) \/ ~NumberChar(text[j + 1])
      /\ WithoutCommas(SubSeq(text, i, j)) = TwoDecimals(v)

\* C18: the text of every dispatch for a month key "YYYY-MM" (the selected
\* month or the answer typed at the prompt) is the function summaryBody of the
\* month key and the total alone, and it contains the month as "MM/YYYY" and
\* the total with exactly two decimals.
C18_SummaryShowsMonthAndTotal ==
    (windowOpened.outcome # "none" /\ IsMonthKey(windowOpened.month)) =>
      /\ windowOpened.body = summaryBody(windowOpened.month, windowOpened.total)
      /\ Contains(windowOpened.body,
                  SubSeq(windowOpened.month, 6, 7) \o <<"/">> \o SubSeq(windowOpened.month, 1, 4))
      /\ ContainsAmount(windowOpened.body, windowOpened.total)

\* the month typed at the prompt, with an expense of 12.50 in it
C18_Witness ==
    /\ session = "open"
    /\ windowOpened.outcome = "opened"
    /\ IsMonthKey(windowOpened.month)
    /\ windowOpened.month # selectedMonth
    /\ windowOpened.total = 1250
    /\ Contains(windowOpened.body, <<"1", "2", ".", "5", "0">>)

\* C19: while a session stays open, no handler and no passage of time turns
\* showMonthlyReminder from false to true: the rollover check runs at the
\* session start only, so a reminder that was dismissed or answered by a
\* dispatch stays hidden even when the month changes under the open session.
C19_ReminderNeverReappearsInSession ==
    [][ (session = "open" /\ session' = "open" /\ ~showMonthlyReminder) =>
          ~showMonthlyReminder' ]_vars

\* the month changed under an open session whose marker is from the month
\* before: a session start now would show the reminder
C19_Witness ==
    /\ session = "open"
    /\ ~showMonthlyReminder
    /\ ~dismissed
    /\ marker.some
    /\ marker.val # NowMonth

\* the JSON text of the empty ledger
EmptyLedgerText == [kind |-> "json", array |-> TRUE, items |-> <<>>]

\* C20: a session start that loads a ledger writes it back to the store
\* before any handler runs; when the stored text did not parse and the empty
\* ledger was loaded, the store holds the text of the empty ledger after the
\* start, and the text that was there is gone.
C20_StartOverwritesStore ==
    [][ Starts =>
          /\ session' = "open" =>
               (stored'.kind = "json" /\ stored'.array /\ stored'.items = expenses')
          /\ alertShown' = ParseErrorLogged =>
               (session' = "open" /\ expenses' = <<>> /\ stored' = EmptyLedgerText
                  /\ stored' # stored) ]_vars

C20_Witness ==
    /\ session = "open"
    /\ alertShown = ParseErrorLogged
    /\ expenses = <<>>
    /\ stored = EmptyLedgerText

====
